---- MODULE Spec2Model ----
(***************************************************************************)
(* Model of NGGMRS_KML (src/main.py): a refresh task that fetches node     *)
(* records, builds a KML tree, writes it to OUTPUT_KML and re-arms a       *)
(* threading.Timer, next to a Flask route that serves OUTPUT_KML.          *)
(*                                                                         *)
(* Time is in whole seconds.  JSON values are tagged records so that a     *)
(* string "1" and a number 1 stay different values.                        *)
(***************************************************************************)
EXTENDS Integers, Sequences, FiniteSets, TLC

\* ------------------------------------------------------------------------
\* Bounds of the model
\* ------------------------------------------------------------------------
MaxNodes == 2      \* longest array a fetch returns in the state machine
MaxLen == 3        \* longest record list handed to build_kml on its own
MaxThreads == 2    \* timer-thread slots (a Timer is a thread)
FetchCap == 2      \* the count of fetches of one cycle stops here
TickSteps == {150, 300}   \* amounts of time one Tick lets pass
NowVals == {1000, 1001}   \* wall-clock readings of datetime.now()

\* ------------------------------------------------------------------------
\* Program constants
\* ------------------------------------------------------------------------
UPDATE_INTERVAL == 5 * 60
StaleAfter == 5 * 60     \* timedelta(minutes=5) in icon_href
Yellow == "https://maps.google.com/mapfiles/kml/paddle/ylw-blank.png"
Red == "https://maps.google.com/mapfiles/kml/paddle/X.png"
Green == "https://maps.google.com/mapfiles/kml/paddle/grn-blank.png"
Raise == "raise"         \* the call ended in an exception

\* ------------------------------------------------------------------------
\* JSON field values.  k is the JSON type, "absent" = key not in the dict.
\* ------------------------------------------------------------------------
Str(s) == [k |-> "str", v |-> s]
Num(s) == [k |-> "num", v |-> s]          \* a JSON number, v its digits
AbsentS == [k |-> "absent", v |-> ""]
NullS == [k |-> "null", v |-> ""]
TInt(n) == [k |-> "int", v |-> n]          \* a numeric time
TAbsent == [k |-> "absent", v |-> 0]
TStr == [k |-> "str", v |-> 0]             \* a non-numeric time
None == "None"

\* dict.get(key, default): the default only replaces a missing key
GetOr(field, default) == IF field.k = "absent" THEN default ELSE field

\* Python truthiness of a text value (ElementTree's "if text:")
Truthy(x) ==
    ~ \/ x.k \in {"absent", "null"}
      \/ x.k = "str" /\ x.v = ""
      \/ x.k = "num" /\ x.v = "0"

Node(hidden, lat, lon, name, desc, keyed, time) ==
    [isdict |-> TRUE, hidden |-> hidden, latitude |-> lat, longitude |-> lon,
     name |-> name, description |-> desc, keyed |-> keyed, time |-> time]

\* an array element that is not a JSON object (no .get method)
NonObject ==
    [isdict |-> FALSE, hidden |-> "absent", latitude |-> None,
     longitude |-> None, name |-> AbsentS, description |-> AbsentS,
     keyed |-> AbsentS, time |-> TAbsent]

\* ------------------------------------------------------------------------
\* fmt_time: epoch seconds -> (day number, hour, minute, second) in UTC
\* ------------------------------------------------------------------------
fmt_time(ts) ==
    IF ts.k # "int" THEN <<-1, -1, -1, -1>>
    ELSE <<ts.v \div 86400, (ts.v % 86400) \div 3600,
           (ts.v % 3600) \div 60, ts.v % 60>>

\* ------------------------------------------------------------------------
\* icon_href: now is the clock reading taken inside the call
\* ------------------------------------------------------------------------
icon_hrefBadOrder(keyed, last_report, now) ==
    IF last_report.k # "int" THEN Raise
    ELSE IF now - last_report.v > StaleAfter THEN Red
    ELSE IF keyed.k = "str" /\ keyed.v = "1" THEN Yellow
    ELSE Green

icon_href(keyed, last_report, now) ==
    IF last_report.k # "int" THEN Raise
    ELSE LET age == now - last_report.v
         IN  IF keyed.k = "str" /\ keyed.v = "1" THEN Yellow
             ELSE IF age > StaleAfter THEN Red
             ELSE Green

\* ------------------------------------------------------------------------
\* build_kml
\* ------------------------------------------------------------------------
RaiseTree == [ok |-> FALSE, placemarks |-> <<>>]

\* int(node.get("keyed", 0)) == 1: the number 1 taken for the string "1"
PlacemarkLooseKeyed(node, now) ==
    [name |-> GetOr(node.name, Str("Unnamed")),
     description |-> GetOr(node.description, Str("")),
     styleUrl |-> "#repeaterStyle",
     href |-> icon_href(GetOr(node.keyed, Str("0")),
                        GetOr(node.time, TInt(0)), now),
     lastReport |-> fmt_time(GetOr(node.time, TInt(0))),
     keyed |-> IF node.keyed.k \in {"str", "num"} /\ node.keyed.v = "1"
               THEN "Yes" ELSE "No",
     coordinates |-> <<node.longitude, node.latitude, "0">>]

Placemark(node, now) ==
    [name |-> GetOr(node.name, Str("Unnamed")),
     description |-> GetOr(node.description, Str("")),
     styleUrl |-> "#repeaterStyle",
     href |-> icon_href(GetOr(node.keyed, Str("0")),
                        GetOr(node.time, TInt(0)), now),
     lastReport |-> fmt_time(GetOr(node.time, TInt(0))),
     keyed |-> IF node.keyed.k = "str" /\ node.keyed.v = "1"
               THEN "Yes" ELSE "No",
     coordinates |-> <<node.longitude, node.latitude, "0">>]

\* node.get("hidden") is truthy
HiddenTruthy(node) == node.hidden = "true"

\* "if not lat or not lon": a coordinate of 0 taken for a missing one
NoCoordinatesFalsy(node) ==
    \/ node.latitude \in {None, "0"}
    \/ node.longitude \in {None, "0"}

\* lat is None or lon is None
NoCoordinates(node) == node.latitude = None \/ node.longitude = None

\* doc.insert(0, placemark) instead of appending
RECURSIVE BuildLoopPrepend(_, _, _, _)
BuildLoopPrepend(items, nows, i, doc) ==
    IF i > Len(items) THEN [ok |-> TRUE, placemarks |-> doc]
    ELSE LET node == items[i]
         IN  IF ~node.isdict THEN RaiseTree
             ELSE IF HiddenTruthy(node)
             THEN BuildLoopPrepend(items, nows, i + 1, doc)
             ELSE IF NoCoordinates(node)
             THEN BuildLoopPrepend(items, nows, i + 1, doc)
             ELSE LET pm == Placemark(node, nows[i])
                  IN  IF pm.href = Raise THEN RaiseTree
                      ELSE BuildLoopPrepend(items, nows, i + 1, <<pm>> \o doc)

RECURSIVE BuildLoop(_, _, _, _)
BuildLoop(items, nows, i, doc) ==
    IF i > Len(items) THEN [ok |-> TRUE, placemarks |-> doc]
    ELSE LET node == items[i]
         IN  IF ~node.isdict THEN RaiseTree
             ELSE IF HiddenTruthy(node) THEN BuildLoop(items, nows, i + 1, doc)
             ELSE IF NoCoordinates(node) THEN BuildLoop(items, nows, i + 1, doc)
             ELSE LET pm == Placemark(node, nows[i])
                  IN  IF pm.href = Raise THEN RaiseTree
                      ELSE BuildLoop(items, nows, i + 1, Append(doc, pm))

\* nows[i] is the clock reading of the icon_href call made for items[i]
build_kml(items, nows) == BuildLoop(items, nows, 1, <<>>)

\* clock readings of one build: one per element, never going backwards
NowSeqs(n) ==
    {s \in [1..n -> NowVals] : \A i \in 1..n : \A j \in i..n : s[i] <= s[j]}


\* ------------------------------------------------------------------------
\* fetch_nodes: what json.loads hands back, or the exception it ends in
\* ------------------------------------------------------------------------
Json(kind, items) == [kind |-> kind, items |-> items]
NoNodes == Json("null", <<>>)

\* records the remote API may return in the state machine
GoodNode ==
    Node("false", "40.0", "-105.0", Str("R1"), Str("462.550"), Str("1"), TInt(900))
BadNameNode ==
    Node("absent", "41.0", "-104.0", Num("5"), AbsentS, Str("0"), TInt(900))
BadTimeNode ==
    Node("absent", "42.0", "-103.0", Str("R3"), AbsentS, Str("0"), TStr)
AgedNode ==
    Node("absent", "0", "0", AbsentS, AbsentS, AbsentS, TInt(700))
FetchUniverse == {GoodNode, BadNameNode, BadTimeNode}

SeqsUpTo(S, n) == UNION {[1..m -> S] : m \in 0..n}

\* iterating a dict yields its keys, iterating a str its characters:
\* either way elements without a .get method
FetchValues ==
    {Json("array", a) : a \in SeqsUpTo(FetchUniverse, MaxNodes)}
    \cup {Json("array", <<NonObject>>), Json("object", <<>>),
          Json("object", <<NonObject>>), Json("string", <<>>),
          Json("string", <<NonObject>>), Json("number", <<>>)}
FetchErrors == {"NetworkFailure", "ParseFailure"}

\* len(nodes) raises TypeError
HasNoLen(nodes) == nodes.kind \in {"number", "null"}

\* ------------------------------------------------------------------------
\* OUTPUT_KML on disk, in chunks: the declaration and opening tags (head),
\* one chunk per Placemark, the closing tags (tail)
\* ------------------------------------------------------------------------
NoFile == [exists |-> FALSE, head |-> FALSE, pms |-> <<>>, tail |-> FALSE]

Min(a, b) == IF a < b THEN a ELSE b
Max(a, b) == IF a > b THEN a ELSE b

\* the file after the first k chunks of tree reached the disk
ContentUpTo(tree, k) ==
    LET n == Len(tree.placemarks)
    IN  [exists |-> TRUE, head |-> k >= 1,
         pms |-> SubSeq(tree.placemarks, 1, Min(Max(k - 1, 0), n)),
         tail |-> k = n + 2]

FileOf(tree) == ContentUpTo(tree, Len(tree.placemarks) + 2)

Complete(f) == f.exists /\ f.head /\ f.tail

\* _escape_cdata accepts the text of every element of the placemark
Serialisable(pm) ==
    /\ Truthy(pm.name) => pm.name.k = "str"
    /\ Truthy(pm.description) => pm.description.k = "str"

\* send_file / abort(404)
ServeResponse(f) ==
    IF f.exists THEN [status |-> 200, body |-> f]
    ELSE [status |-> 404, body |-> NoFile]

\* ------------------------------------------------------------------------
\* State
\* ------------------------------------------------------------------------
VARIABLES
    thr,        \* thread -> its position in update_kml and its locals
    file,       \* OUTPUT_KML
    req,        \* a GET /kml request is waiting to be handled
    lastGood,   \* history: the document of the last cycle that succeeded
    elapsed,    \* history: time since the last cycle completed (capped)
    completed,  \* history: some cycle has completed
    fetches,    \* history: fetch requests issued by the current cycle
    c_keyed, c_last, c_now, c_icon,      \* one call of icon_href
    b_items, b_nows, b_tree, b_done,     \* one call of build_kml
    r_nows, r_tree, r_done               \* a second call on the same records

vars == <<thr, file, req, lastGood, elapsed, completed, fetches,
          c_keyed, c_last, c_now, c_icon, b_items, b_nows, b_tree, b_done,
          r_nows, r_tree, r_done>>
machine == <<thr, file, req, lastGood, elapsed, completed, fetches>>
hist == <<elapsed, completed>>
pure == <<c_keyed, c_last, c_now, c_icon, b_items, b_nows, b_tree, b_done,
          r_nows, r_tree, r_done>>

MainThread == 0
Timers == 1..MaxThreads
Threads == {MainThread} \cup Timers
TryBody == {"fetch", "build", "open", "writing"}

Local(pc, rem, nodes, tree, wpos, start, out) ==
    [pc |-> pc, rem |-> rem, nodes |-> nodes, tree |-> tree, wpos |-> wpos,
     start |-> start, out |-> out]
Free == Local("free", 0, NoNodes, RaiseTree, 0, NoFile, "none")

PureIdle ==
    /\ c_keyed = AbsentS /\ c_last = TAbsent /\ c_now = 0 /\ c_icon = ""
    /\ b_items = <<>> /\ b_nows = <<>> /\ b_tree = RaiseTree /\ b_done = FALSE
    /\ r_nows = <<>> /\ r_tree = RaiseTree /\ r_done = FALSE

\* __main__ calls update_kml() itself: no timer exists yet
MachineInit ==
    /\ thr = [t \in Threads |->
                IF t = MainThread
                THEN Local("fetch", 0, NoNodes, RaiseTree, 0, NoFile, "none")
                ELSE Free]
    /\ file = NoFile
    /\ req = FALSE
    /\ lastGood = NoFile
    /\ elapsed = 0
    /\ completed = FALSE
    /\ fetches = 0

\* __main__ starting a Timer instead of calling update_kml()
InitTimerFirst ==
    /\ thr = [t \in Threads |->
                IF t = MainThread
                THEN Local("arm", 0, NoNodes, RaiseTree, 0, NoFile, "none")
                ELSE Free]
    /\ file = NoFile /\ req = FALSE /\ lastGood = NoFile
    /\ elapsed = 0 /\ completed = FALSE /\ fetches = 0
    /\ PureIdle

\* update_kml started in a background thread, app.run reached at once
InitBackgroundFirst ==
    /\ thr = [t \in Threads |->
                IF t = MainThread THEN [Free EXCEPT !.pc = "serve"]
                ELSE IF t = 1
                THEN Local("fetch", 0, NoNodes, RaiseTree, 0, NoFile, "none")
                ELSE Free]
    /\ file = NoFile /\ req = FALSE /\ lastGood = NoFile
    /\ elapsed = 0 /\ completed = FALSE /\ fetches = 0
    /\ PureIdle

Init == MachineInit /\ PureIdle

\* the cycle's try/except is over: next is line 135
Finish(t, out) == [thr[t] EXCEPT !.pc = "arm", !.out = out]

\* ------------------------------------------------------------------------
\* update_kml
\* ------------------------------------------------------------------------
\* the output file opened before the fetch: a failed fetch leaves it empty
FetchOpenFirst(t) ==
    /\ thr[t].pc = "fetch"
    /\ \/ \E v \in FetchValues :
            thr' = [thr EXCEPT ![t] = [@ EXCEPT !.pc = "build", !.nodes = v]]
          /\ UNCHANGED <<hist, file>>
       \/ \E e \in FetchErrors :
            thr' = [thr EXCEPT ![t] = Finish(t, "fetch_failed")]
          /\ elapsed' = 0 /\ completed' = TRUE
          /\ file' = ContentUpTo(RaiseTree, 0)
    /\ fetches' = Min(fetches + 1, FetchCap)
    /\ UNCHANGED <<req, lastGood, pure>>

\* no try/except: the exception of a failed fetch ends the thread before
\* line 135 is reached
FetchUncaught(t) ==
    /\ thr[t].pc = "fetch"
    /\ \/ \E v \in FetchValues :
            thr' = [thr EXCEPT ![t] = [@ EXCEPT !.pc = "build", !.nodes = v]]
          /\ UNCHANGED hist
       \/ \E e \in FetchErrors :
            thr' = [thr EXCEPT ![t] = Free]
          /\ elapsed' = 0 /\ completed' = TRUE
    /\ fetches' = Min(fetches + 1, FetchCap)
    /\ UNCHANGED <<file, req, lastGood, pure>>

\* a failed fetch tried again at once instead of ending the cycle
FetchRetry(t) ==
    /\ thr[t].pc = "fetch"
    /\ \/ \E v \in FetchValues :
            thr' = [thr EXCEPT ![t] = [@ EXCEPT !.pc = "build", !.nodes = v]]
          /\ UNCHANGED hist
       \/ \E e \in FetchErrors :
            /\ fetches < FetchCap
            /\ UNCHANGED <<thr, hist>>
       \/ \E e \in FetchErrors :
            thr' = [thr EXCEPT ![t] = Finish(t, "fetch_failed")]
          /\ elapsed' = 0 /\ completed' = TRUE
    /\ fetches' = Min(fetches + 1, FetchCap)
    /\ UNCHANGED <<file, req, lastGood, pure>>

\* line 124: fetch_nodes() returns a value or raises
Fetch(t) ==
    /\ thr[t].pc = "fetch"
    /\ \/ \E v \in FetchValues :
            thr' = [thr EXCEPT ![t] = [@ EXCEPT !.pc = "build", !.nodes = v]]
          /\ UNCHANGED hist
       \/ \E e \in FetchErrors :
            thr' = [thr EXCEPT ![t] = Finish(t, "fetch_failed")]
          /\ elapsed' = 0 /\ completed' = TRUE
    /\ fetches' = Min(fetches + 1, FetchCap)
    /\ UNCHANGED <<file, req, lastGood, pure>>

\* lines 125-128: len(nodes) for the log line, then build_kml(nodes)
Build(t) ==
    /\ thr[t].pc = "build"
    /\ LET nodes == thr[t].nodes
       IN  IF HasNoLen(nodes)
           THEN /\ thr' = [thr EXCEPT ![t] = Finish(t, "build_failed")]
                /\ elapsed' = 0 /\ completed' = TRUE
           ELSE \E nows \in NowSeqs(Len(nodes.items)) :
                  LET tree == build_kml(nodes.items, nows)
                  IN  IF tree.ok
                      THEN /\ thr' = [thr EXCEPT ![t] =
                                        [@ EXCEPT !.pc = "open", !.tree = tree]]
                           /\ UNCHANGED hist
                      ELSE /\ thr' = [thr EXCEPT ![t] = Finish(t, "build_failed")]
                           /\ elapsed' = 0 /\ completed' = TRUE
    /\ UNCHANGED <<file, req, lastGood, fetches, pure>>

\* line 129, tree.write: open(OUTPUT_KML, "w") creates or truncates the file
WriteOpen(t) ==
    /\ thr[t].pc = "open"
    /\ file' = ContentUpTo(thr[t].tree, 0)
    /\ thr' = [thr EXCEPT ![t] = [@ EXCEPT !.pc = "writing", !.wpos = 0]]
    /\ UNCHANGED <<req, lastGood, hist, fetches, pure>>

\* line 129, tree.write: the next chunk is serialised into the writer's
\* buffer, which may or may not be flushed to disk; an exception or the end
\* of the document closes the file, which flushes what is buffered
Serialize(t) ==
    /\ thr[t].pc = "writing"
    /\ LET tree == thr[t].tree
           n == Len(tree.placemarks)
           k == thr[t].wpos + 1
       IN  IF k \in 2..(n + 1) /\ ~Serialisable(tree.placemarks[k - 1])
           THEN /\ file' = ContentUpTo(tree, k - 1)
                /\ thr' = [thr EXCEPT ![t] = Finish(t, "write_failed")]
                /\ elapsed' = 0 /\ completed' = TRUE
                /\ UNCHANGED lastGood
           ELSE IF k = n + 2
           THEN /\ file' = FileOf(tree)
                /\ thr' = [thr EXCEPT ![t] = Finish(t, "ok")]
                /\ elapsed' = 0 /\ completed' = TRUE
                /\ lastGood' = FileOf(tree)
           ELSE /\ \E flush \in BOOLEAN :
                     file' = IF flush THEN ContentUpTo(tree, k) ELSE file
                /\ thr' = [thr EXCEPT ![t] = [@ EXCEPT !.wpos = k]]
                /\ UNCHANGED <<lastGood, hist>>
    /\ UNCHANGED <<req, fetches, pure>>

FreeTimers(t) == {s \in Timers : s # t /\ thr[s].pc = "free"}

\* the Timer started and update_kml() also called again directly
ArmThenLoop(t) ==
    /\ thr[t].pc = "arm"
    /\ FreeTimers(t) # {}
    /\ LET s == CHOOSE x \in FreeTimers(t) : \A y \in FreeTimers(t) : x <= y
       IN  thr' = [thr EXCEPT
                     ![s] = Local("wait", UPDATE_INTERVAL, NoNodes, RaiseTree,
                                  0, NoFile, "none"),
                     ![t] = Local("fetch", 0, NoNodes, RaiseTree, 0, file,
                                  "none")]
    /\ UNCHANGED <<file, req, lastGood, hist, fetches, pure>>

\* line 135: threading.Timer(UPDATE_INTERVAL, update_kml).start(), then
\* update_kml returns: the main thread goes on to app.run, a timer thread ends
Arm(t) ==
    /\ thr[t].pc = "arm"
    /\ FreeTimers(t) # {}
    /\ LET s == CHOOSE x \in FreeTimers(t) : \A y \in FreeTimers(t) : x <= y
       IN  thr' = [thr EXCEPT
                     ![s] = Local("wait", UPDATE_INTERVAL, NoNodes, RaiseTree,
                                  0, NoFile, "none"),
                     ![t] = IF t = MainThread
                            THEN [Free EXCEPT !.pc = "run"] ELSE Free]
    /\ UNCHANGED <<file, req, lastGood, hist, fetches, pure>>

\* the Timer's interval has passed: its thread calls update_kml
TimerFire(t) ==
    /\ t \in Timers
    /\ thr[t].pc = "wait"
    /\ thr[t].rem = 0
    /\ thr' = [thr EXCEPT ![t] = [@ EXCEPT !.pc = "fetch", !.start = file]]
    /\ fetches' = 0
    /\ UNCHANGED <<file, req, lastGood, hist, pure>>

\* time passes
Tick(d) ==
    /\ \/ elapsed < UPDATE_INTERVAL
       \/ \E t \in Timers : thr[t].pc = "wait" /\ thr[t].rem > 0
    /\ elapsed' = Min(elapsed + d, UPDATE_INTERVAL)
    /\ thr' = [t \in Threads |->
                 IF thr[t].pc = "wait"
                 THEN [thr[t] EXCEPT !.rem = Max(@ - d, 0)] ELSE thr[t]]
    /\ UNCHANGED <<file, req, lastGood, completed, fetches, pure>>

\* ------------------------------------------------------------------------
\* __main__ and the Flask route
\* ------------------------------------------------------------------------
\* lines 166-168: app.run after update_kml() returned
AppRun ==
    /\ thr[MainThread].pc = "run"
    /\ thr' = [thr EXCEPT ![MainThread] = [@ EXCEPT !.pc = "serve"]]
    /\ UNCHANGED <<file, req, lastGood, hist, fetches, pure>>

\* a client sends GET /kml
Request ==
    /\ thr[MainThread].pc = "serve"
    /\ ~req
    /\ req' = TRUE
    /\ UNCHANGED <<thr, file, lastGood, hist, fetches, pure>>

\* the route waiting for the refresh task: no answer while a cycle runs
ServeKmlBlocked ==
    /\ thr[MainThread].pc = "serve"
    /\ \A t \in Threads : thr[t].pc \notin TryBody
    /\ req
    /\ req' = FALSE
    /\ UNCHANGED <<thr, file, lastGood, hist, fetches, pure>>

\* serve_kml answers with ServeResponse(file)
ServeKml ==
    /\ thr[MainThread].pc = "serve"
    /\ req
    /\ req' = FALSE
    /\ UNCHANGED <<thr, file, lastGood, hist, fetches, pure>>

Next ==
    \/ \E t \in Threads : Fetch(t)
    \/ \E t \in Threads : Build(t)
    \/ \E t \in Threads : WriteOpen(t)
    \/ \E t \in Threads : Serialize(t)
    \/ \E t \in Threads : Arm(t)
    \/ \E t \in Timers : TimerFire(t)
    \/ \E d \in TickSteps : Tick(d)
    \/ AppRun
    \/ Request
    \/ ServeKml

Spec == Init /\ [][Next]_vars


\* ------------------------------------------------------------------------
\* icon_href on its own
\* ------------------------------------------------------------------------
KeyedVals == {Str("1"), Str("0"), Str(""), Num("1"), NullS}
LastVals == {TInt(x) : x \in {0, 699, 700, 701, 1000, 1001, 1300}} \cup {TStr}

InitClassify ==
    /\ MachineInit
    /\ c_keyed \in KeyedVals /\ c_last \in LastVals /\ c_now \in NowVals
    /\ c_icon = ""
    /\ b_items = <<>> /\ b_nows = <<>> /\ b_tree = RaiseTree /\ b_done = FALSE
    /\ r_nows = <<>> /\ r_tree = RaiseTree /\ r_done = FALSE

Classify ==
    /\ c_icon = ""
    /\ c_icon' = icon_href(c_keyed, c_last, c_now)
    /\ UNCHANGED <<machine, c_keyed, c_last, c_now,
                   b_items, b_nows, b_tree, b_done, r_nows, r_tree, r_done>>

ClassifySpec == InitClassify /\ [][Classify]_vars

\* ------------------------------------------------------------------------
\* build_kml on its own
\* ------------------------------------------------------------------------
FreshNode ==
    Node("false", "39.5", "-106.0", Str("R2"), Str("462.600"), Str("0"), TInt(1000))
HiddenNode ==
    Node("true", "1", "1", Str("R3"), AbsentS, Str("1"), TInt(1000))
HiddenBadTimeNode ==
    Node("true", "2", "2", Str("R5"), AbsentS, Str("0"), TStr)
NoLatNode ==
    Node("false", None, "-100.0", Str("R4"), AbsentS, Str("0"), TInt(1000))
NoLonNode ==
    Node("absent", "38.0", None, Str("R6"), AbsentS, Str("1"), TInt(0))
IntKeyedNode ==
    Node("false", "37.0", "-107.0", Str("R7"), AbsentS, Num("1"), TInt(1000))
BuildUniverse ==
    {GoodNode, FreshNode, AgedNode, HiddenNode, HiddenBadTimeNode, NoLatNode,
     NoLonNode, BadTimeNode, NonObject, IntKeyedNode}

InitBuild ==
    /\ MachineInit
    /\ c_keyed = AbsentS /\ c_last = TAbsent /\ c_now = 0 /\ c_icon = ""
    /\ b_items \in SeqsUpTo(BuildUniverse, MaxLen)
    /\ b_nows \in NowSeqs(Len(b_items))
    /\ b_tree = RaiseTree
    /\ b_done = FALSE
    /\ r_nows = <<>> /\ r_tree = RaiseTree /\ r_done = FALSE

BuildCall ==
    /\ ~b_done
    /\ b_tree' = build_kml(b_items, b_nows)
    /\ b_done' = TRUE
    /\ UNCHANGED <<machine, c_keyed, c_last, c_now, c_icon, b_items, b_nows,
                   r_nows, r_tree, r_done>>

BuildSpec == InitBuild /\ [][BuildCall]_vars

\* ------------------------------------------------------------------------
\* build_kml called twice on the same records, the second call after the
\* first: its clock readings start where those of the first ended
\* ------------------------------------------------------------------------
InitRebuild ==
    /\ MachineInit
    /\ c_keyed = AbsentS /\ c_last = TAbsent /\ c_now = 0 /\ c_icon = ""
    /\ b_items \in SeqsUpTo(BuildUniverse, MaxLen)
    /\ b_nows \in NowSeqs(Len(b_items))
    /\ r_nows \in {s \in NowSeqs(Len(b_items)) :
                     Len(b_items) > 0 => s[1] >= b_nows[Len(b_items)]}
    /\ b_tree = RaiseTree /\ b_done = FALSE
    /\ r_tree = RaiseTree /\ r_done = FALSE

Rebuild ==
    /\ b_done /\ ~r_done
    /\ r_tree' = build_kml(b_items, r_nows)
    /\ r_done' = TRUE
    /\ UNCHANGED <<machine, c_keyed, c_last, c_now, c_icon,
                   b_items, b_nows, b_tree, b_done, r_nows>>

RebuildSpec == InitRebuild /\ [][BuildCall \/ Rebuild]_vars

\* every thread that can take a step is scheduled, time passes, and a Timer
\* whose interval has passed runs; fetch_nodes returns or raises
Fairness ==
    /\ \A t \in Threads :
         /\ WF_vars(Fetch(t)) /\ WF_vars(Build(t)) /\ WF_vars(WriteOpen(t))
         /\ WF_vars(Serialize(t)) /\ WF_vars(Arm(t))
    /\ \A t \in Timers : WF_vars(TimerFire(t))
    /\ WF_vars(\E d \in TickSteps : Tick(d))

FairSpec == Spec /\ Fairness

Outcomes == {"ok", "fetch_failed", "build_failed", "write_failed"}

CycleDone == \E t \in Threads : thr[t].pc = "arm" /\ thr[t].out \in Outcomes
TimerArmed == \E s \in Timers : thr[s].pc = "wait" /\ thr[s].rem = UPDATE_INTERVAL
CycleStarted == \E s \in Timers : thr[s].pc = "fetch"

\* a later cycle running after a cycle whose write failed
C5_Witness ==
    /\ \E s \in Timers : thr[s].pc = "build"
    /\ completed
    /\ lastGood = NoFile
    /\ file.exists /\ ~Complete(file)

\* C5: every cycle that completes, with whatever outcome, is followed by a
\* timer armed with the fixed interval and then by a cycle that starts;
\* cycles are started again and again
C5_EveryCycleIsFollowed ==
    /\ CycleDone ~> TimerArmed
    /\ CycleDone ~> CycleStarted
    /\ []<>CycleStarted



\* ------------------------------------------------------------------------
\* Properties
\* ------------------------------------------------------------------------
Writing(t) == thr[t].pc \in {"open", "writing"}
Active(t) == thr[t].pc \in TryBody \cup {"arm"}
Waiting(t) == thr[t].pc = "wait"

\* C1: a GET /kml handled while a cycle is in its write, the cycle having
\* started from the document of the last successful cycle (or from no
\* document), is answered from the previous complete document or from the
\* new complete document, never from an empty or partly written file
C1_ReaderSeesOldOrNewDocument ==
    [][\A t \in Threads :
         (ServeKml /\ Writing(t) /\ thr[t].start = lastGood)
            => /\ file \in {thr[t].start, FileOf(thr[t].tree)}
               /\ file.exists => Complete(ServeResponse(file).body)]_vars

\* C2: at most one cycle is running and at most one timer is pending, no
\* timer is pending while a cycle has not completed and armed it, and a
\* cycle started by a timer starts a full interval after the one before
\* completed
C2_SingleFlight ==
    /\ Cardinality({t \in Threads : Active(t)}) <= 1
    /\ Cardinality({t \in Timers : Waiting(t)}) <= 1
    /\ (\E t \in Threads : Active(t)) => ~(\E s \in Timers : Waiting(s))
    /\ \A t \in Timers : thr[t].pc = "fetch" => elapsed >= 300

C2_Witness ==
    \E t \in Timers :
        /\ thr[t].pc = "writing" /\ thr[t].wpos = 1
        /\ Complete(lastGood) /\ elapsed = UPDATE_INTERVAL

\* C3: a cycle whose fetch failed ends with OUTPUT_KML as it was when the
\* cycle started (the last good document if there is one, no file if no
\* cycle wrote one), so GET /kml answers as it did before the cycle
C3_FetchFailureKeepsStore ==
    \A t \in Threads :
        (thr[t].pc = "arm" /\ thr[t].out = "fetch_failed")
           => /\ file = thr[t].start
              /\ ServeResponse(file) = ServeResponse(thr[t].start)

C3_Witness ==
    \E t \in Timers :
        /\ thr[t].pc = "arm" /\ thr[t].out = "fetch_failed"
        /\ Complete(thr[t].start) /\ Len(thr[t].start.pms) = 2
        /\ file = lastGood

\* C4: a cycle that failed after its fetch, in the build or in the
\* serialisation, leaves a previously stored complete document in place
C4_LateFailureKeepsStore ==
    \A t \in Threads :
        (/\ thr[t].pc = "arm"
         /\ thr[t].out \in {"build_failed", "write_failed"}
         /\ Complete(thr[t].start))
           => file = thr[t].start

\* C6: GET /kml answers 404 exactly when no cycle has succeeded so far, and
\* otherwise answers 200 with the document of the last successful cycle
C6_ServesLastGoodDocument ==
    [][ServeKml =>
         LET r == ServeResponse(file)
         IN  /\ r.status \in {200, 404}
             /\ r.status = 404 <=> lastGood = NoFile
             /\ r.status = 200 => r.body = lastGood]_vars

\* C7: the first cycle is run by the main thread at process start; no timer
\* exists until that cycle has completed, so timers only start later cycles
C7_FirstCycleImmediate ==
    /\ ~completed => thr[MainThread].pc \in TryBody
    /\ \A t \in Timers : thr[t].pc # "free" => completed

C7_Witness ==
    /\ thr[MainThread].pc = "build"
    /\ elapsed = 0
    /\ ~completed

\* C8: for numeric report times, icon_href gives yellow when keyed is the
\* string "1" whatever the age, else red when now - last_report > 300,
\* else green (age of exactly 300 and report times in the future included)
C8_IconChoice ==
    (c_icon # "" /\ c_last.k = "int") =>
        LET age == c_now - c_last.v
        IN  /\ c_keyed = Str("1") => c_icon = Yellow
            /\ (c_keyed # Str("1") /\ age > 300) => c_icon = Red
            /\ (c_keyed # Str("1") /\ age <= 300) => c_icon = Green

C8_Witness ==
    /\ c_icon = Green
    /\ c_keyed = Str("0")
    /\ c_last.k = "int" /\ c_now - c_last.v = 300

\* a record that is not hidden and has both coordinates
Qualifies(node) ==
    /\ node.isdict
    /\ node.hidden # "true"
    /\ node.latitude # None
    /\ node.longitude # None

\* C9: the document build_kml returns has as many placemarks as the input
\* has records that are not hidden and have latitude and longitude, a
\* coordinate of 0 counting as present
C9_PlacemarkCount ==
    (b_done /\ b_tree.ok) =>
        Len(b_tree.placemarks) =
            Cardinality({i \in 1..Len(b_items) : Qualifies(b_items[i])})

C9_Witness ==
    /\ b_done /\ b_tree.ok
    /\ Len(b_items) = 3 /\ Len(b_tree.placemarks) = 1
    /\ \E i \in 1..3 : b_items[i].latitude = "0" /\ Qualifies(b_items[i])
    /\ \E i \in 1..3 : b_items[i].hidden = "true"

\* C10: the i-th placemark of the document carries the name and the
\* coordinates of the i-th qualifying record of the input: same order,
\* nothing sorted, repeated or left out
C10_OrderPreserved ==
    (b_done /\ b_tree.ok) =>
        LET q == SelectSeq(b_items, Qualifies)
        IN  /\ Len(b_tree.placemarks) = Len(q)
            /\ \A i \in 1..Len(q) :
                 /\ b_tree.placemarks[i].name = GetOr(q[i].name, Str("Unnamed"))
                 /\ b_tree.placemarks[i].coordinates =
                        <<q[i].longitude, q[i].latitude, "0">>

C10_Witness ==
    /\ b_done /\ b_tree.ok
    /\ Len(b_items) = 3 /\ Len(b_tree.placemarks) = 2
    /\ Qualifies(b_items[1]) /\ ~Qualifies(b_items[2]) /\ Qualifies(b_items[3])
    /\ b_items[1] # b_items[3]
    /\ b_tree.placemarks[1].name = b_items[1].name


\* both calls of build_kml take the same first clock reading (the clock is
\* read once for each qualifying record)
SameNow ==
    \A i \in 1..Len(b_items) :
        (Qualifies(b_items[i]) /\ \A j \in 1..(i - 1) : ~Qualifies(b_items[j]))
           => r_nows[i] = b_nows[i]

\* C11: two calls of build_kml on the same records at the same time return
\* the same document, and neither touches OUTPUT_KML
C11_SameNowSameDocument ==
    (b_done /\ r_done /\ SameNow) => (r_tree = b_tree /\ file = NoFile)

\* the placemark made for items[i], a qualifying record
PmIndex(items, i) == Cardinality({j \in 1..i : Qualifies(items[j])})

\* C14: in one document, two qualifying records with the same keyed and the
\* same time carry the same icon, wherever they stand in the input
C14_OneNowPerBuild ==
    (b_done /\ b_tree.ok) =>
        \A i, j \in 1..Len(b_items) :
            (/\ Qualifies(b_items[i]) /\ Qualifies(b_items[j])
             /\ b_items[i].keyed = b_items[j].keyed
             /\ b_items[i].time = b_items[j].time)
               => b_tree.placemarks[PmIndex(b_items, i)].href =
                  b_tree.placemarks[PmIndex(b_items, j)].href

\* C17: in every document a placemark's keyed field is "Yes" exactly when
\* its icon is the yellow one; a record whose keyed is missing or is not the
\* string "1" gets "No" and a red or green icon
C17_KeyedMatchesIcon ==
    (b_done /\ b_tree.ok) =>
        /\ \A k \in 1..Len(b_tree.placemarks) :
             /\ b_tree.placemarks[k].keyed \in {"Yes", "No"}
             /\ b_tree.placemarks[k].keyed = "Yes"
                   <=> b_tree.placemarks[k].href = Yellow
        /\ \A i \in 1..Len(b_items) :
             (Qualifies(b_items[i]) /\ b_items[i].keyed # Str("1"))
                => /\ b_tree.placemarks[PmIndex(b_items, i)].keyed = "No"
                   /\ b_tree.placemarks[PmIndex(b_items, i)].href \in {Red, Green}

C17_Witness ==
    /\ b_done /\ b_tree.ok
    /\ b_items = <<IntKeyedNode, AgedNode, GoodNode>>
    /\ b_tree.placemarks[1].keyed = "No" /\ b_tree.placemarks[1].href = Green
    /\ b_tree.placemarks[2].keyed = "No" /\ b_tree.placemarks[2].href = Red
    /\ b_tree.placemarks[3].keyed = "Yes" /\ b_tree.placemarks[3].href = Yellow


\* C12: a cycle issues one fetch (none while it waits at the call, one
\* afterwards), and whatever its outcome the thread leaving line 135 has
\* armed one timer with the full fixed interval and started no fetch
C12_OneFetchFixedDelay ==
    /\ [](\A t \in Threads :
            /\ thr[t].pc = "fetch" => fetches = 0
            /\ thr[t].pc \in {"build", "open", "writing", "arm"} => fetches = 1)
    /\ [][\A t \in Threads : \A o \in Outcomes :
            (thr[t].pc = "arm" /\ thr[t].out = o /\ thr'[t].pc # "arm")
               => /\ \E s \in Timers :
                       /\ thr[s].pc = "free" /\ thr'[s].pc = "wait"
                       /\ thr'[s].rem = 300
                  /\ \A u \in Threads : thr'[u].pc # "fetch"]_vars

C12_Witness ==
    /\ \E s \in Timers : thr[s].pc = "wait" /\ thr[s].rem = 150
    /\ fetches = 1
    /\ completed /\ lastGood = NoFile /\ ~file.exists

\* json.loads returned a list whose elements are all dicts
ArrayOfObjects(nodes) ==
    /\ nodes.kind = "array"
    /\ \A i \in 1..Len(nodes.items) : nodes.items[i].isdict

\* C13: a cycle whose fetch returned JSON that is not an array of objects
\* ends as a failure and leaves OUTPUT_KML as it was
C13_NotAnArrayFails ==
    \A t \in Threads :
        (/\ thr[t].pc = "arm"
         /\ thr[t].out # "fetch_failed"
         /\ ~ArrayOfObjects(thr[t].nodes))
           => (thr[t].out = "build_failed" /\ file = thr[t].start)

\* C15 as stated: during every cycle, the first included, no timer is armed,
\* no other cycle runs, the file is unchanged and the server is serving
C15_ServesDuringEveryCycle ==
    \A t \in Threads :
        thr[t].pc \in {"fetch", "build"}
           => /\ \A s \in Timers : ~Waiting(s)
              /\ \A u \in Threads \ {t} : ~Active(u)
              /\ file = thr[t].start
              /\ thr[MainThread].pc = "serve"
              /\ ENABLED (Request \/ ServeKml)

\* C15, amended: while a cycle is in its fetch or build no timer is armed,
\* no other cycle runs and the file is unchanged; if the cycle was started
\* by a timer and app.run has been reached, GET /kml can be sent and is
\* answered; during the first cycle no request is taken or answered
C15_ServesDuringLaterCycles ==
    \A t \in Threads :
        thr[t].pc \in {"fetch", "build"}
           => /\ \A s \in Timers : ~Waiting(s)
              /\ \A u \in Threads \ {t} : ~Active(u)
              /\ file = thr[t].start
              /\ (t \in Timers /\ thr[MainThread].pc = "serve")
                    => /\ ENABLED (Request \/ ServeKml)
                       /\ req => ENABLED ServeKml
              /\ t = MainThread => (~req /\ ~ENABLED (Request \/ ServeKml))

C15_Witness ==
    /\ \E t \in Timers : thr[t].pc = "fetch"
    /\ thr[MainThread].pc = "serve"
    /\ req
    /\ Complete(file) /\ file = lastGood

\* C16: a request is answered only after the first cycle has completed, and
\* a 404 only when a cycle has completed and none has succeeded
C16_NoAnswerBeforeFirstCycle ==
    [][ServeKml =>
         /\ completed
         /\ ~Active(MainThread)
         /\ ServeResponse(file).status = 404
               => (completed /\ lastGood = NoFile)]_vars

C16_Witness ==
    /\ thr[MainThread].pc = "serve"
    /\ req
    /\ ~file.exists
    /\ completed /\ lastGood = NoFile
    /\ \E t \in Timers : thr[t].pc = "build"

\* C18: the file a cycle leaves behind has a placemark for every qualifying
\* record the cycle fetched, and a cycle with a record that fails the build
\* leaves the file alone
C18_AllOrNothing ==
    \A t \in Threads :
        thr[t].pc = "arm" =>
            /\ thr[t].out \in {"ok", "write_failed"}
                  => Len(file.pms) =
                       Cardinality({i \in 1..Len(thr[t].nodes.items) :
                                       Qualifies(thr[t].nodes.items[i])})
            /\ thr[t].out = "build_failed" => file = thr[t].start

====
